---- MODULE Spec2Model ----
(***************************************************************************)
(* Model of the ASUTP collector: the retrying HTTP sender                  *)
(* (internal/sender/sender.go), the SQLite buffer                          *)
(* (internal/buffer/sqlite.go), the collection manager                     *)
(* (internal/collector/manager.go) with the shutdown sequence of           *)
(* cmd/collector/main.go, the response handling and field transform of the *)
(* energy API adapter (internal/collector/adapters/energy_api.go), the     *)
(* health server (internal/health/server.go) and the jittered backoff      *)
(* policy (internal/sender/retry.go).                                      *)
(*                                                                         *)
(* Time is counted in ticks; Res ticks make one second.  time.RFC3339      *)
(* formatting keeps whole seconds only, so a formatted time is the tick    *)
(* count divided by Res.                                                   *)
(***************************************************************************)
EXTENDS Integers, Sequences, FiniteSets, TLC

-----------------------------------------------------------------------------
(* Bounds of the model *)

\* largest retry.MaxAttempts tried by the sender specification
MaxAttemptsBound == 3
\* largest InitialDelay / MaxDelay (in ticks) tried by the sender specification
MaxDelayBound == 3
\* ticks per second (sub-second resolution of time.Now())
Res == 2
\* the clock stops advancing at this tick
MaxTime == 4
\* number of envelopes (uuids) that can be built in one behaviour
MaxRecords == 2
\* number of configured devices (len(stationCfg.Devices))
NumDevices == 2
\* largest number of checkers registered with the health server
MaxCheckers == 3
\* largest batch handed to LogSender.SendBatch
MaxBatch == 4
\* largest number of configured fields of a device (len(device.Fields))
MaxFields == 3
\* time.Duration units per tick
Grain == 10
\* number of values rand.Float64() can return
RandSteps == 4

-----------------------------------------------------------------------------

VARIABLES
    \* configuration
    retry,          \* HTTPSender.retry : [MaxAttempts, InitialDelay, MaxDelay]
    bufferEnabled,  \* Manager.bufferEnabled (the buffer is non-nil exactly then)
    \* environment
    now,            \* time.Now() in ticks
    cancelled,      \* ctx.Done() is closed
    \* health.Server
    checkers,       \* names of the registered checkers, in registration order
    \* SQLiteBuffer
    queue,          \* rows of table buffer :
                    \* [id, timestamp, values_json, created_at]
    \* HTTPSender
    snd,            \* one sendWithRetry frame per caller of Send
    \* Manager.Start / collectAndSend
    cpc,            \* position of the goroutine running Start
    tick,           \* a value is waiting in the polling ticker's channel
    polls,          \* devices whose poll goroutine is still running
    results,        \* contents of the results channel
    closed,         \* close(results) has run (TRUE while no round is open)
    envelope,       \* the envelope built by the current loop iteration
    nextId,         \* next identifier uuid.New() hands out
    \* Manager.retryBufferedData / processBufferedData
    rpc,            \* position of the replay goroutine
    rtick,          \* a value is waiting in the replay ticker's channel
    pending,        \* result of GetPending in the current cycle
    idx,            \* index into pending of the envelope being sent
    sentIDs,        \* sentIDs of the current cycle
    \* main / Manager.Stop
    stopCh,         \* close(m.stopCh) has run
    collectorClosed,\* m.collector.Close() has run
    bufferClosed,   \* buf.Close() has run
    \* history (not program state)
    cycleLog,       \* Send calls of the current replay cycle : <<[id, res]>>
    markArg,        \* argument of the MarkSent call of the current cycle
    fate,           \* per envelope built: [send, stores, kept, replayed]
    roundLog,       \* per device, in the current round: [kind, sends]
    last            \* last direct call on the buffer : [op, arg, err, before,
                    \* at], and born, the tick each id was last stored at

cfgVars  == <<retry, bufferEnabled, checkers>>
collVars == <<cpc, tick, polls, results, closed, envelope, nextId>>
replVars == <<rpc, rtick, pending, idx, sentIDs>>
mainVars == <<stopCh, collectorClosed, bufferClosed>>
histVars == <<cycleLog, markArg, fate, roundLog>>
mgrVars  == <<collVars, replVars, mainVars, histVars>>

vars == <<cfgVars, now, cancelled, queue, snd, mgrVars, last>>

Callers == {"direct", "coll", "replay"}
Devices == 1..NumDevices

Min(a, b) == IF a < b THEN a ELSE b

RECURSIVE Pow2(_)
Pow2(n) == IF n <= 0 THEN 1 ELSE 2 * Pow2(n - 1)

-----------------------------------------------------------------------------
(* internal/sender/sender.go *)

\* every retry configuration the sender specification tries; the loader's
\* env-default replaces zero values, so all three are positive
RetryConfigs ==
    [MaxAttempts : 1..MaxAttemptsBound,
     InitialDelay : 1..MaxDelayBound,
     MaxDelay : 1..MaxDelayBound]

\* a Send that is not running
IdleFrame ==
    [pc |-> "idle", attempt |-> 0, delay |-> 0, lastErr |-> 0,
     result |-> "none", outcomes |-> <<>>, waits |-> <<>>]

\* nextDelay: double, capped at MaxDelay
nextDelay(current) ==
    LET next == current * 2
    IN  IF next > retry.MaxDelay THEN retry.MaxDelay ELSE next

\* line 91: a wait follows a failed attempt only when attempts remain
WaitsBeforeRetry(attempt) == attempt < retry.MaxAttempts

\* the loop condition with the last attempt left out
LoopContinues_OneShort(attempt) == attempt < retry.MaxAttempts

\* line 78: the loop condition
LoopContinues(attempt) == attempt <= retry.MaxAttempts

\* attempt++ followed by the loop test; falling out of the loop returns the
\* aggregate error wrapping lastErr
NextIteration(f) ==
    IF LoopContinues(f.attempt + 1)
    THEN [f EXCEPT !.pc = "attempt", !.attempt = f.attempt + 1]
    ELSE [f EXCEPT !.pc = "ret", !.attempt = f.attempt + 1,
                   !.result = "allFailed"]

\* Send / SendBatch: json.Marshal, then sendWithRetry up to the first loop test
SendEntry(marshalOK) ==
    IF ~marshalOK
    THEN [IdleFrame EXCEPT !.pc = "ret", !.result = "marshalErr"]
    ELSE NextIteration([IdleFrame EXCEPT !.delay = retry.InitialDelay])

\* one pass of the loop body from doSend to the select (lines 79-96)
AfterAttempt(f, ok) ==
    IF ok
    THEN [f EXCEPT !.pc = "ret", !.result = "ok",
                   !.outcomes = Append(@, "ok")]
    ELSE LET g == [f EXCEPT !.lastErr = f.attempt,
                            !.outcomes = Append(@, "fail")]
         IN  IF WaitsBeforeRetry(g.attempt)
             THEN [g EXCEPT !.pc = "wait", !.waits = Append(@, g.delay)]
             ELSE NextIteration(g)

\* select case <-time.After(delay): delay = nextDelay(delay), next iteration
AfterTimer(f) == NextIteration([f EXCEPT !.delay = nextDelay(f.delay)])

\* a wait that carries on to the next attempt when the context is cancelled
AfterCancel_Ignored(f) == AfterTimer(f)

\* select case <-ctx.Done(): return ctx.Err()
AfterCancel(f) == [f EXCEPT !.pc = "ret", !.result = "ctxErr"]

\* doSend: a request on a cancelled context fails; otherwise the endpoint
\* decides
doSendOutcomes == IF cancelled THEN {FALSE} ELSE BOOLEAN

\* the loop body runs doSend for caller c
sendWithRetry_attempt(c) ==
    /\ snd[c].pc = "attempt"
    /\ \E ok \in doSendOutcomes :
         snd' = [snd EXCEPT ![c] = AfterAttempt(snd[c], ok)]
    /\ UNCHANGED <<cfgVars, now, cancelled, queue, mgrVars, last>>

\* the timer of the select fires first.  With the context already cancelled
\* the timer case can only win when it is ready at once (delay <= 0).
sendWithRetry_timer(c) ==
    /\ snd[c].pc = "wait"
    /\ ~cancelled \/ snd[c].delay <= 0
    /\ snd' = [snd EXCEPT ![c] = AfterTimer(snd[c])]
    /\ UNCHANGED <<cfgVars, now, cancelled, queue, mgrVars, last>>

\* ctx.Done() wins the select
sendWithRetry_cancel(c) ==
    /\ snd[c].pc = "wait"
    /\ cancelled
    /\ snd' = [snd EXCEPT ![c] = AfterCancel(snd[c])]
    /\ UNCHANGED <<cfgVars, now, cancelled, queue, mgrVars, last>>

\* cancel() of the context handed to Start and Send
Cancel ==
    /\ ~cancelled
    /\ cancelled' = TRUE
    /\ UNCHANGED <<cfgVars, now, queue, snd, mgrVars, last>>

-----------------------------------------------------------------------------
(* internal/buffer/sqlite.go *)

\* cfg.Buffer.MaxAge in ticks
MaxAge == 2

\* time.Format(time.RFC3339): the time in whole seconds
Format(t) == t \div Res

\* the ids of the rows of a table
Ids(q) == {r.id : r \in q}

\* the elements of a sequence
Range(s) == {s[k] : k \in 1..Len(s)}

\* the row of table q with identifier id
Row(q, id) == CHOOSE r \in q : r.id = id

\* an ExecContext / QueryContext / BeginTx on a cancelled context fails; on a
\* live one the database may still fail (I/O error, busy)
dbFails(ctxDone) == IF ctxDone THEN {TRUE} ELSE BOOLEAN

\* a DataPoint whose Value is a Go value of dynamic type tag with literal text
Point(name, tag, text, unit, quality, severity) ==
    [name |-> name, value |-> [tag |-> tag, text |-> text], unit |-> unit,
     quality |-> quality, severity |-> severity]

\* json.Marshal of a DataPoint.Value: float64 and int both become a JSON
\* number, nil becomes null
MarshalValue(x) ==
    [json |-> CASE x.tag \in {"float", "int"} -> "number"
                [] x.tag = "bool" -> "bool"
                [] x.tag = "string" -> "string"
                [] OTHER -> "null",
     text |-> x.text]

\* json.Unmarshal into a DataPoint.Value of type any: every JSON number
\* becomes a float64
UnmarshalValue(j) ==
    [tag |-> CASE j.json = "number" -> "float"
               [] j.json = "bool" -> "bool"
               [] j.json = "string" -> "string"
               [] OTHER -> "nil",
     text |-> j.text]

\* the keys of the JSON object of a DataPoint: unit and severity are omitempty
Keys(dp) ==
    {"name", "value", "quality"}
      \cup (IF dp.unit = "" THEN {} ELSE {"unit"})
      \cup (IF dp.severity = "" THEN {} ELSE {"severity"})

\* json.Marshal of a DataPoint
MarshalPoint(dp) ==
    [k \in Keys(dp) |-> IF k = "value" THEN MarshalValue(dp.value) ELSE dp[k]]

\* a string member of a JSON object; a missing key leaves the zero value
Member(j, k) == IF k \in DOMAIN j THEN j[k] ELSE ""

\* json.Unmarshal of a JSON object into a DataPoint
UnmarshalPoint(j) ==
    [name |-> Member(j, "name"), value |-> UnmarshalValue(j["value"]),
     unit |-> Member(j, "unit"), quality |-> Member(j, "quality"),
     severity |-> Member(j, "severity")]

\* json.Marshal(envelope.Values)
MarshalValues(vs) == [k \in 1..Len(vs) |-> MarshalPoint(vs[k])]

\* json.Unmarshal into []DataPoint
UnmarshalValues(js) == [k \in 1..Len(js) |-> UnmarshalPoint(js[k])]

\* json.Marshal rejects NaN
HasNaN(vs) == \E k \in 1..Len(vs) : vs[k].value.text = "NaN"

\* time.Parse(time.RFC3339): the instant at the start of the formatted second
Parse(sec) == sec * Res

\* the row Store inserts for envelope e at created_at second c
ToRow(e, c) ==
    [id |-> e.id, timestamp |-> Format(e.timestamp),
     values_json |-> MarshalValues(e.values), created_at |-> c]

\* the INSERT of Store: id is the PRIMARY KEY, so a second row with the same
\* id is a constraint error; created_at is the formatted current time
Store(q, e, t) ==
    IF e.id \in Ids(q)
    THEN [err |-> TRUE, queue |-> q]
    ELSE [err |-> FALSE, queue |-> q \cup {ToRow(e, Format(t))}]

\* Store as a caller sees it: json.Marshal of the values fails for an
\* unmarshalable envelope, the database call can fail, otherwise the INSERT
StoreOutcomes(q, e, t, ctxDone) ==
    IF e.nan
    THEN {[err |-> TRUE, queue |-> q]}
    ELSE {IF f THEN [err |-> TRUE, queue |-> q] ELSE Store(q, e, t) :
            f \in dbFails(ctxDone)}

\* the envelope GetPending rebuilds from a row
FromRow(r) ==
    [id |-> r.id, nan |-> FALSE, timestamp |-> Parse(r.timestamp),
     values |-> UnmarshalValues(r.values_json)]

\* a query without the LIMIT
Limited_None(n, limit) == n

\* LIMIT ?: a negative limit means no limit in SQLite
Limited(n, limit) == IF limit < 0 THEN n ELSE Min(n, limit)

\* a query without the ORDER BY
Ordered_Any(s) == TRUE

\* ORDER BY created_at ASC: position j never holds an older row than position k < j
Ordered(s) ==
    \A j, k \in 1..Len(s) : j < k => s[j].created_at <= s[k].created_at

\* SELECT ... WHERE sent = 0 ORDER BY created_at ASC LIMIT ?: every row has
\* sent = 0; rows with equal created_at come in any order
GetPending(q, limit) ==
    LET n == Limited(Cardinality(q), limit)
        picks == {s \in [1..n -> q] :
                    /\ \A j, k \in 1..n : j # k => s[j] # s[k]
                    /\ Ordered(s)
                    /\ \A r \in q \ Range(s) :
                         \A k \in 1..n : s[k].created_at <= r.created_at}
    IN  {[k \in 1..n |-> FromRow(s[k])] : s \in picks}

\* a MarkSent that deletes every row of the table
MarkSent_AllRows(q, ids) == {}

\* a MarkSent that deletes nothing
MarkSent_NoRows(q, ids) == q

\* the committed transaction of MarkSent: DELETE ... WHERE id = ? for each id
MarkSent(q, ids) == {r \in q : r.id \notin Range(ids)}

\* the table as the transaction sees it after the first k DELETEs of the loop
Deleted(q, ids, k) == {r \in q : r.id \notin {ids[j] : j \in 1..k}}

\* a rollback that keeps the DELETEs already executed
Rollback_KeepsDeletes(q, work) == work

\* defer tx.Rollback() on a transaction that was not committed (an error
\* return, or the process dying): the table is as it was at BeginTx
Rollback(q, work) == q

\* a DELETE that fails when no row has the id
DeleteFails_NoRow(q, id) == id \notin Ids(q)

\* DELETE ... WHERE id = ? on an id that has no row deletes nothing and is
\* not an error
DeleteFails(q, id) == FALSE

\* MarkSent as a caller sees it.  interrupted: BeginTx, PrepareContext, a
\* DELETE or Commit fails, or the process dies, after done DELETEs have been
\* executed inside the transaction.
MarkSentRun(q, ids, interrupted, done) ==
    IF Len(ids) = 0 THEN [err |-> FALSE, queue |-> q]
    ELSE LET bad == {k \in 1..Len(ids) : DeleteFails(Deleted(q, ids, k - 1), ids[k])}
             stop == IF interrupted THEN done
                     ELSE IF bad = {} THEN Len(ids)
                     ELSE (CHOOSE k \in bad : \A j \in bad : k <= j) - 1
         IN  IF ~interrupted /\ bad = {}
             THEN [err |-> FALSE, queue |-> MarkSent(q, ids)]
             ELSE [err |-> TRUE, queue |-> Rollback(q, Deleted(q, ids, stop))]

\* a Cleanup that also deletes the rows created in the cutoff second
Cleanup_Inclusive(q, t, maxAge) ==
    LET cutoff == Format(t - maxAge)
    IN  {r \in q : ~(r.created_at <= cutoff)}

\* Cleanup: DELETE ... WHERE created_at < cutoff, cutoff the formatted now - maxAge
Cleanup(q, t, maxAge) ==
    LET cutoff == Format(t - maxAge)
    IN  {r \in q : ~(r.created_at < cutoff)}

\* Count: SELECT COUNT(*) ... WHERE sent = 0
Count(q) == Cardinality(q)

\* the clock advances
Tick ==
    /\ now < MaxTime
    /\ now' = now + 1
    /\ UNCHANGED <<cfgVars, cancelled, queue, snd, mgrVars, last>>

-----------------------------------------------------------------------------
(* internal/collector/manager.go and cmd/collector/main.go *)

\* the batch size processBufferedData asks GetPending for
BatchLimit == 100

\* the retry configuration of the sender the manager is wired to
ManagerRetry == [MaxAttempts |-> 2, InitialDelay |-> 1, MaxDelay |-> 2]

NoEnvelope == [id |-> 0, nan |-> FALSE, timestamp |-> 0, values |-> <<>>]
NoMark == [called |-> FALSE, ids |-> <<>>, err |-> FALSE]
NoRound == [d \in Devices |-> [kind |-> "none", sends |-> 0]]
NoCall == [op |-> "none", arg |-> <<>>, fault |-> FALSE, err |-> FALSE,
           ret |-> <<>>, before |-> {}, at |-> 0,
           born |-> [i \in 1..MaxRecords |-> 0],
           stored |-> [i \in 1..MaxRecords |-> NoEnvelope]]

\* the data points of a collected sample of kind k
SampleValues(k) ==
    IF k = "nan" THEN <<Point("p", "float", "NaN", "kW", "good", "")>>
    ELSE IF k = "good" THEN <<Point("p", "float", "1.5", "kW", "good", "")>>
    ELSE <<>>

\* samples in the results channel that will become an envelope
NonEmpty(rs) == {k \in 1..Len(rs) : rs[k].kind # "empty"}

\* what the device's endpoint can answer to the POST of Collect
Responses ==
    {"transportErr", "status500", "True", "False", "true", "false", "TRUE",
     "object", "objectNaN"}

\* a body that is a literal boolean after TrimSpace
IsBoolean(body) == body \in {"True", "False", "true", "false"}

\* EnergyAPIAdapter.Collect: a transport error or a status other than 200 is
\* an error; a literal boolean body is a sample without data points; any
\* other body must unmarshal into a JSON object, which transformData turns
\* into one data point per configured field (a field holding "NaN" becomes
\* the float NaN)
CollectResult(resp) ==
    IF resp \in {"transportErr", "status500"} THEN "err"
    ELSE IF IsBoolean(resp) THEN "empty"
    ELSE IF resp = "object" THEN "good"
    ELSE IF resp = "objectNaN" THEN "nan"
    ELSE "err"

\* what Collect can return: an error, a sample without data points, a sample
\* with data points, a sample whose values json.Marshal rejects (NaN).  A
\* request on a cancelled context fails.
CollectOutcomes ==
    IF cancelled THEN {"err"}
    ELSE {"err", "empty"} \cup
         (IF nextId + Cardinality(NonEmpty(results)) <= MaxRecords
          THEN {"good", "nan"} ELSE {})

\* the polling ticker delivers a tick (its channel holds one value)
TickerFire ==
    /\ cpc \in {"range", "send", "select"}
    /\ ~tick
    /\ tick' = TRUE
    /\ UNCHANGED <<cfgVars, now, cancelled, queue, snd, cpc, polls, results,
                   closed, envelope, nextId, replVars, mainVars, histVars, last>>

\* the 30 s ticker of retryBufferedData delivers a tick
ReplayTickerFire ==
    /\ rpc \in {"select", "send", "ack", "cleanup"}
    /\ ~rtick
    /\ rtick' = TRUE
    /\ UNCHANGED <<cfgVars, now, cancelled, queue, snd, collVars, rpc, pending,
                   idx, sentIDs, mainVars, histVars, last>>

\* Start up to the first collectAndSend: the replay goroutine is spawned and
\* the first round fans out one poll per device
Start ==
    /\ cpc = "start"
    /\ cpc' = "range"
    /\ rpc' = "entry"
    /\ polls' = Devices
    /\ results' = <<>>
    /\ closed' = FALSE
    /\ UNCHANGED <<cfgVars, now, cancelled, queue, snd, tick, envelope, nextId,
                   rtick, pending, idx, sentIDs, mainVars, histVars, last>>

\* a ticker whose tick starts a round wherever the loop is
AtSelect_AnyTime == cpc \in {"select", "range", "send"}

\* the goroutine of Start is at its select (line 63), the only place where
\* ticker.C is read; collectAndSend is called from there and runs to its end
\* before the loop comes back
AtSelect == cpc = "select"

\* Start's select takes ticker.C: the next collectAndSend fans out
Start_tick ==
    /\ AtSelect
    /\ tick
    /\ tick' = FALSE
    /\ cpc' = "range"
    /\ polls' = Devices
    /\ results' = <<>>
    /\ closed' = FALSE
    /\ UNCHANGED <<cfgVars, now, cancelled, queue, snd, envelope, nextId,
                   replVars, mainVars, histVars, last>>

\* Start's select takes ctx.Done() or m.stopCh: Start returns, the deferred
\* ticker.Stop() runs
\* a loop that leaves only on stopCh and does not watch ctx.Done
ShutdownSignalled_StopOnly == stopCh

\* the cases <-ctx.Done() and <-m.stopCh of the select of both loops
ShutdownSignalled == cancelled \/ stopCh

Start_return ==
    /\ cpc = "select"
    /\ ShutdownSignalled
    /\ cpc' = "returned"
    /\ tick' = FALSE
    /\ UNCHANGED <<cfgVars, now, cancelled, queue, snd, polls, results, closed,
                   envelope, nextId, replVars, mainVars, histVars, last>>

\* a poll goroutine whose error discards the samples already gathered
Gathered_ErrDropsAll(rs, d, k) ==
    IF k = "err" THEN <<>> ELSE Append(rs, [dev |-> d, kind |-> k])

\* lines 97-105: the results channel after the poll of device d returned k;
\* an error is logged only, a sample is sent into the channel
Gathered(rs, d, k) ==
    IF k = "err" THEN rs ELSE Append(rs, [dev |-> d, kind |-> k])

\* a results channel one slot short of the number of devices
ChanCap_OneShort == NumDevices - 1

\* line 86: the capacity of the results channel, len(m.stationCfg.Devices)
ChanCap == NumDevices

\* one poll goroutine: Collect returns; a sample goes into the results
\* channel when the channel has room (line 105 blocks otherwise), an error
\* is logged only
Collect(d) ==
    /\ d \in polls
    /\ polls' = polls \ {d}
    /\ \E resp \in Responses :
         LET k == CollectResult(resp)
         IN  /\ k \in CollectOutcomes
             /\ k = "err" \/ Len(results) < ChanCap
             /\ results' = Gathered(results, d, k)
             /\ roundLog' = [roundLog EXCEPT ![d].kind = k]
    /\ UNCHANGED <<cfgVars, now, cancelled, queue, snd, cpc, tick, closed,
                   envelope, nextId, replVars, mainVars, cycleLog, markArg,
                   fate, last>>

\* the goroutine of lines 109-112: wg.Wait() then close(results)
closeResults ==
    /\ ~closed
    /\ polls = {}
    /\ closed' = TRUE
    /\ UNCHANGED <<cfgVars, now, cancelled, queue, snd, cpc, tick, polls,
                   results, envelope, nextId, replVars, mainVars, histVars, last>>

\* a loop that builds an envelope from every sample
Skips_Never(data) == FALSE

\* lines 116-121: a sample without data points is skipped
Skips(data) == Len(SampleValues(data.kind)) = 0

\* for data := range results: an empty sample is skipped, any other becomes
\* an envelope with a new id and Send is called on it
collectAndSend_range ==
    /\ cpc = "range"
    /\ results # <<>>
    /\ results' = Tail(results)
    /\ IF Skips(Head(results))
       THEN UNCHANGED <<cpc, envelope, nextId, snd, fate, roundLog>>
       ELSE LET e == [id |-> nextId, nan |-> Head(results).kind = "nan",
                      timestamp |-> now,
                      values |-> SampleValues(Head(results).kind)]
            IN  /\ envelope' = e
                /\ nextId' = nextId + 1
                /\ snd' = [snd EXCEPT !["coll"] = SendEntry(~e.nan)]
                /\ cpc' = "send"
                /\ fate' = Append(fate, [send |-> "running", stores |-> 0,
                                         kept |-> FALSE,
                                         replayed |-> FALSE])
                /\ roundLog' = [roundLog EXCEPT
                                  ![Head(results).dev].sends = @ + 1]
    /\ UNCHANGED <<cfgVars, now, cancelled, queue, tick, polls, closed,
                   replVars, mainVars, cycleLog, markArg, last>>

\* the range loop ends on the closed, drained channel: collectAndSend returns
collectAndSend_return ==
    /\ cpc = "range"
    /\ results = <<>>
    /\ closed
    /\ cpc' = "select"
    /\ roundLog' = NoRound
    /\ UNCHANGED <<cfgVars, now, cancelled, queue, snd, tick, polls, results,
                   closed, envelope, nextId, replVars, mainVars, cycleLog,
                   markArg, fate, last>>

\* a round that stores every envelope, delivered or not
StoresAfterSend_Always(result) == bufferEnabled

\* lines 132 and 138: Store follows a Send that returned an error, when
\* buffering is on
StoresAfterSend(result) == result # "ok" /\ bufferEnabled

\* lines 132-154: Send returned; on an error, with buffering on, Store is
\* called once and its error only logged
collectAndSend_afterSend ==
    /\ cpc = "send"
    /\ snd["coll"].pc = "ret"
    /\ snd' = [snd EXCEPT !["coll"] = IdleFrame]
    /\ cpc' = "range"
    /\ LET res == IF snd["coll"].result = "ok" THEN "ok" ELSE "err"
       IN  IF StoresAfterSend(snd["coll"].result)
           THEN \E o \in StoreOutcomes(queue, envelope, now, cancelled) :
                  /\ queue' = o.queue
                  /\ fate' = [fate EXCEPT ![envelope.id] =
                                [send |-> res, stores |-> @.stores + 1,
                                 kept |-> ~o.err, replayed |-> @.replayed]]
           ELSE /\ fate' = [fate EXCEPT ![envelope.id].send = res]
                /\ UNCHANGED queue
    /\ envelope' = NoEnvelope
    /\ UNCHANGED <<cfgVars, now, cancelled, tick, polls, results, closed,
                   nextId, replVars, mainVars, cycleLog, markArg, roundLog,
                   last>>

\* retryBufferedData up to its loop: without a buffer it returns at once
retryBufferedData_entry ==
    /\ rpc = "entry"
    /\ rpc' = IF bufferEnabled THEN "select" ELSE "done"
    /\ UNCHANGED <<cfgVars, now, cancelled, queue, snd, collVars, rtick,
                   pending, idx, sentIDs, mainVars, histVars, last>>

\* the select of retryBufferedData takes ctx.Done() or m.stopCh
retryBufferedData_return ==
    /\ rpc = "select"
    /\ ShutdownSignalled
    /\ rpc' = "done"
    /\ rtick' = FALSE
    /\ UNCHANGED <<cfgVars, now, cancelled, queue, snd, collVars, pending, idx,
                   sentIDs, mainVars, histVars, last>>

\* processBufferedData up to the first Send: GetPending; an error or an empty
\* result returns at once
processBufferedData_fetch ==
    /\ rpc = "select"
    /\ rtick
    /\ rtick' = FALSE
    /\ \E f \in dbFails(cancelled) :
         IF f
         THEN UNCHANGED <<rpc, pending, idx, snd, cycleLog>>
         ELSE \E p \in GetPending(queue, BatchLimit) :
                IF Len(p) = 0
                THEN UNCHANGED <<rpc, pending, idx, snd, cycleLog>>
                ELSE /\ pending' = p
                     /\ idx' = 1
                     /\ snd' = [snd EXCEPT !["replay"] = SendEntry(~p[1].nan)]
                     /\ rpc' = "send"
                     /\ cycleLog' = <<[id |-> p[1].id, res |-> "running"]>>
    /\ UNCHANGED <<cfgVars, now, cancelled, queue, collVars, sentIDs, mainVars,
                   markArg, fate, roundLog, last>>

\* a loop that goes on to the next envelope after a failed Send
ContinuesAfter_NoBreak(ok, i, p) == i < Len(p)

\* lines 194-201: the loop goes on to the next envelope after a Send that
\* succeeded, while envelopes remain; an error breaks it
ContinuesAfter(ok, i, p) == ok /\ i < Len(p)

\* a loop that never appends the id
SentAfter_Never(ids, ok, id) == ids

\* a loop that appends the id whatever Send returned
SentAfter_Always(ids, ok, id) == Append(ids, id)

\* line 202: the id of an envelope whose Send succeeded is appended to sentIDs
SentAfter(ids, ok, id) == IF ok THEN Append(ids, id) ELSE ids

\* lines 194-203: Send returned for pending[idx]; an error breaks the loop,
\* a success appends the id and moves to the next envelope
processBufferedData_afterSend ==
    /\ rpc = "send"
    /\ snd["replay"].pc = "ret"
    /\ LET ok == snd["replay"].result = "ok"
           more == ContinuesAfter(ok, idx, pending)
           done == [cycleLog EXCEPT ![Len(cycleLog)].res =
                      IF ok THEN "ok" ELSE "err"]
       IN  /\ cycleLog' = IF more
                          THEN Append(done, [id |-> pending[idx + 1].id,
                                             res |-> "running"])
                          ELSE done
           /\ sentIDs' = SentAfter(sentIDs, ok, pending[idx].id)
           /\ idx' = IF more THEN idx + 1 ELSE idx
           /\ rpc' = IF more THEN "send" ELSE "ack"
           /\ snd' = [snd EXCEPT !["replay"] =
                        IF more THEN SendEntry(~pending[idx + 1].nan)
                        ELSE IdleFrame]
           /\ fate' = IF ok
                      THEN [fate EXCEPT ![pending[idx].id].replayed = TRUE]
                      ELSE fate
    /\ UNCHANGED <<cfgVars, now, cancelled, queue, collVars, rtick, pending,
                   mainVars, markArg, roundLog, last>>

\* the record of deliveries once the queue is q: an envelope counts as
\* replayed only while its row is still in the queue
Settled(f, q) ==
    [i \in 1..Len(f) |-> [f[i] EXCEPT !.replayed = @ /\ i \in Ids(q)]]

\* lines 205-211: MarkSent(sentIDs) when something was sent; its error is
\* only logged
processBufferedData_markSent ==
    /\ rpc = "ack"
    /\ rpc' = "cleanup"
    /\ IF Len(sentIDs) > 0
       THEN \E f \in dbFails(cancelled) :
              /\ markArg' = [called |-> TRUE, ids |-> sentIDs, err |-> f]
              /\ queue' = IF f THEN queue ELSE MarkSent(queue, sentIDs)
       ELSE UNCHANGED <<markArg, queue>>
    /\ fate' = Settled(fate, queue')
    /\ UNCHANGED <<cfgVars, now, cancelled, snd, collVars, rtick, pending, idx,
                   sentIDs, mainVars, cycleLog, roundLog, last>>

\* lines 213-215: Cleanup(MaxAge); processBufferedData returns
processBufferedData_cleanup ==
    /\ rpc = "cleanup"
    /\ rpc' = "select"
    /\ \E f \in dbFails(cancelled) :
         queue' = IF f THEN queue ELSE Cleanup(queue, now, MaxAge)
    /\ pending' = <<>>
    /\ idx' = 0
    /\ sentIDs' = <<>>
    /\ cycleLog' = <<>>
    /\ markArg' = NoMark
    /\ fate' = Settled(fate, queue')
    /\ UNCHANGED <<cfgVars, now, cancelled, snd, collVars, rtick, mainVars,
                   roundLog, last>>

\* main calls Stop once Start has returned: close(m.stopCh)
Stop_close ==
    /\ cpc = "returned"
    /\ ~stopCh
    /\ stopCh' = TRUE
    /\ UNCHANGED <<cfgVars, now, cancelled, queue, snd, collVars, replVars,
                   collectorClosed, bufferClosed, histVars, last>>

\* a Stop that does not wait for the replay goroutine
WgWait_Skipped == TRUE

\* m.wg.Wait() in Stop returns once retryBufferedData has run its deferred
\* m.wg.Done()
WgWait == rpc = "done"

\* Stop: m.wg.Wait() returns when retryBufferedData is done, then
\* m.collector.Close()
Stop_wait ==
    /\ stopCh
    /\ WgWait
    /\ ~collectorClosed
    /\ collectorClosed' = TRUE
    /\ UNCHANGED <<cfgVars, now, cancelled, queue, snd, collVars, replVars,
                   stopCh, bufferClosed, histVars, last>>

\* main after Stop: buf.Close() when a buffer was opened
main_closeBuffer ==
    /\ collectorClosed
    /\ bufferEnabled
    /\ ~bufferClosed
    /\ bufferClosed' = TRUE
    /\ UNCHANGED <<cfgVars, now, cancelled, queue, snd, collVars, replVars,
                   stopCh, collectorClosed, histVars, last>>

Init ==
    /\ retry = ManagerRetry
    /\ bufferEnabled \in BOOLEAN
    /\ checkers = IF bufferEnabled THEN <<"sender", "buffer">> ELSE <<"sender">>
    /\ now = 0
    /\ cancelled = FALSE
    /\ queue = {}
    /\ snd = [c \in Callers |-> IdleFrame]
    /\ cpc = "start"
    /\ tick = FALSE
    /\ polls = {}
    /\ results = <<>>
    /\ closed = TRUE
    /\ envelope = NoEnvelope
    /\ nextId = 1
    /\ rpc = "none"
    /\ rtick = FALSE
    /\ pending = <<>>
    /\ idx = 0
    /\ sentIDs = <<>>
    /\ stopCh = FALSE
    /\ collectorClosed = FALSE
    /\ bufferClosed = FALSE
    /\ cycleLog = <<>>
    /\ markArg = NoMark
    /\ fate = <<>>
    /\ roundLog = NoRound
    /\ last = NoCall

Next ==
    \/ Tick
    \/ Cancel
    \/ TickerFire
    \/ ReplayTickerFire
    \/ Start
    \/ Start_tick
    \/ Start_return
    \/ \E d \in Devices : Collect(d)
    \/ closeResults
    \/ collectAndSend_range
    \/ collectAndSend_return
    \/ collectAndSend_afterSend
    \/ retryBufferedData_entry
    \/ retryBufferedData_return
    \/ processBufferedData_fetch
    \/ processBufferedData_afterSend
    \/ processBufferedData_markSent
    \/ processBufferedData_cleanup
    \/ \E c \in {"coll", "replay"} :
         \/ sendWithRetry_attempt(c)
         \/ sendWithRetry_timer(c)
         \/ sendWithRetry_cancel(c)
    \/ Stop_close
    \/ Stop_wait
    \/ main_closeBuffer

Spec == Init /\ [][Next]_vars

-----------------------------------------------------------------------------
(* The manager under fair scheduling.  The clock is left out: no step of the
   loops depends on the value of now, a backoff timer fires whenever it is
   left running.  Every goroutine that can take a step eventually takes one
   (the polls and the doSend calls return because the HTTP client has a
   timeout), and a select with several ready cases picks among them at
   random, so a case that is ready again and again is eventually taken.
   The tickers, the shutdown signal and main's calls of Stop and Close are
   not forced. *)

\* the steps of the collection loop, its polls and its Send
LoopSteps ==
    \/ Start
    \/ \E d \in Devices : Collect(d)
    \/ closeResults
    \/ collectAndSend_range
    \/ collectAndSend_return
    \/ collectAndSend_afterSend
    \/ sendWithRetry_attempt("coll")
    \/ sendWithRetry_timer("coll")
    \/ sendWithRetry_cancel("coll")

\* the steps of a replay cycle and its Send
ReplaySteps ==
    \/ retryBufferedData_entry
    \/ processBufferedData_afterSend
    \/ processBufferedData_markSent
    \/ processBufferedData_cleanup
    \/ sendWithRetry_attempt("replay")
    \/ sendWithRetry_timer("replay")
    \/ sendWithRetry_cancel("replay")

NextLive ==
    \/ Cancel
    \/ TickerFire
    \/ ReplayTickerFire
    \/ Start_tick
    \/ Start_return
    \/ LoopSteps
    \/ retryBufferedData_return
    \/ processBufferedData_fetch
    \/ ReplaySteps
    \/ Stop_close
    \/ Stop_wait
    \/ main_closeBuffer

SpecLive ==
    /\ Init
    /\ [][NextLive]_vars
    /\ WF_vars(LoopSteps)
    /\ WF_vars(ReplaySteps)
    /\ SF_vars(Start_return)
    /\ SF_vars(retryBufferedData_return)

\* the same with a replay ticker that keeps firing and a select of the
\* replay loop that takes a waiting tick
SpecDrain ==
    /\ SpecLive
    /\ WF_vars(ReplayTickerFire)
    /\ WF_vars(processBufferedData_fetch)

-----------------------------------------------------------------------------
(* The sender on its own: one caller invoking Send repeatedly *)

DirectSend ==
    /\ snd["direct"].pc = "idle"
    /\ \E marshalOK \in BOOLEAN :
         snd' = [snd EXCEPT !["direct"] = SendEntry(marshalOK)]
    /\ UNCHANGED <<cfgVars, now, cancelled, queue, mgrVars, last>>

DirectReturn ==
    /\ snd["direct"].pc = "ret"
    /\ snd' = [snd EXCEPT !["direct"] = IdleFrame]
    /\ UNCHANGED <<cfgVars, now, cancelled, queue, mgrVars, last>>

\* the manager stays as constructed; only the sender runs
MgrIdle ==
    /\ bufferEnabled = TRUE
    /\ checkers = <<>>
    /\ now = 0
    /\ queue = {}
    /\ cpc = "start"
    /\ tick = FALSE
    /\ polls = {}
    /\ results = <<>>
    /\ closed = TRUE
    /\ envelope = NoEnvelope
    /\ nextId = 1
    /\ rpc = "none"
    /\ rtick = FALSE
    /\ pending = <<>>
    /\ idx = 0
    /\ sentIDs = <<>>
    /\ stopCh = FALSE
    /\ collectorClosed = FALSE
    /\ bufferClosed = FALSE
    /\ cycleLog = <<>>
    /\ markArg = NoMark
    /\ fate = <<>>
    /\ roundLog = NoRound
    /\ last = NoCall

InitSender ==
    /\ retry \in RetryConfigs
    /\ cancelled = FALSE
    /\ snd = [c \in Callers |-> IdleFrame]
    /\ MgrIdle

NextSender ==
    \/ DirectSend
    \/ sendWithRetry_attempt("direct")
    \/ sendWithRetry_timer("direct")
    \/ sendWithRetry_cancel("direct")
    \/ DirectReturn
    \/ Cancel

SpecSender == InitSender /\ [][NextSender]_vars

-----------------------------------------------------------------------------
(* The buffer on its own: a client calling the Buffer interface directly *)

\* identifiers a direct caller stores and acknowledges
BufIds == 1..MaxRecords

\* the ids of a set as a slice, smallest first
RECURSIVE SeqOf(_)
SeqOf(S) ==
    IF S = {} THEN <<>>
    ELSE LET m == CHOOSE x \in S : \A y \in S : x <= y
         IN  <<m>> \o SeqOf(S \ {m})

\* the envelopes a direct caller stores are built at the time of the call;
\* their Values are a sample with one data point of each
\* dynamic type, and a sample json.Marshal rejects
TestValues ==
    {<<Point("power", "float", "1.5", "kW", "good", ""),
       Point("starts", "int", "7", "", "good", "warning"),
       Point("breaker", "bool", "true", "", "good", ""),
       Point("mode", "string", "on", "", "good", "critical"),
       Point("level", "nil", "null", "m", "bad", "")>>,
     <<Point("power", "float", "NaN", "kW", "good", "")>>}

DirectStore ==
    \E id \in BufIds, vs \in TestValues, ctxDone \in BOOLEAN, f \in BOOLEAN :
      LET nan == HasNaN(vs)
          e == [id |-> id, nan |-> nan, timestamp |-> now, values |-> vs]
          fault == nan \/ ctxDone \/ f
          o == IF fault THEN [err |-> TRUE, queue |-> queue]
               ELSE Store(queue, e, now)
      IN  /\ f \in dbFails(ctxDone)
          /\ o \in StoreOutcomes(queue, e, now, ctxDone)
          /\ queue' = o.queue
          /\ last' = [op |-> "Store", arg |-> <<id>>, fault |-> fault,
                      err |-> o.err, ret |-> <<>>, before |-> queue,
                      at |-> now,
                      born |-> IF o.err THEN last.born
                               ELSE [last.born EXCEPT ![id] = now],
                      stored |-> IF o.err THEN last.stored
                                 ELSE [last.stored EXCEPT ![id] = e]]
          /\ UNCHANGED <<cfgVars, now, cancelled, snd, mgrVars>>

DirectGetPending ==
    \E limit \in 0..MaxRecords, f \in BOOLEAN :
      \E p \in (IF f THEN {<<>>} ELSE GetPending(queue, limit)) :
        /\ last' = [op |-> "GetPending", arg |-> <<limit>>, fault |-> f,
                    err |-> f, ret |-> p, before |-> queue, at |-> now,
                    born |-> last.born,
                      stored |-> last.stored]
        /\ UNCHANGED <<cfgVars, now, cancelled, queue, snd, mgrVars>>

DirectMarkSent ==
    \E S \in SUBSET BufIds, f \in BOOLEAN, done \in 0..MaxRecords :
      LET ids == SeqOf(S)
          failed == f /\ S # {}
          o == MarkSentRun(queue, ids, failed, done)
      IN  /\ done <= Len(ids)
          /\ ~failed => done = 0
          /\ queue' = o.queue
          /\ last' = [op |-> "MarkSent", arg |-> ids, fault |-> failed,
                      err |-> o.err, ret |-> <<>>, before |-> queue,
                      at |-> now, born |-> last.born,
                      stored |-> last.stored]
          /\ UNCHANGED <<cfgVars, now, cancelled, snd, mgrVars>>

DirectCleanup ==
    \E maxAge \in 0..MaxAge, f \in BOOLEAN :
      /\ queue' = IF f THEN queue ELSE Cleanup(queue, now, maxAge)
      /\ last' = [op |-> "Cleanup", arg |-> <<maxAge>>, fault |-> f,
                  err |-> f, ret |-> <<>>, before |-> queue, at |-> now,
                  born |-> last.born,
                      stored |-> last.stored]
      /\ UNCHANGED <<cfgVars, now, cancelled, snd, mgrVars>>

InitBuffer ==
    /\ retry = ManagerRetry
    /\ cancelled = FALSE
    /\ snd = [c \in Callers |-> IdleFrame]
    /\ MgrIdle

NextBuffer ==
    \/ DirectStore
    \/ DirectGetPending
    \/ DirectMarkSent
    \/ DirectCleanup
    \/ Tick

SpecBuffer == InitBuffer /\ [][NextBuffer]_vars

-----------------------------------------------------------------------------
(* The health server on its own: checkers are registered in any order and
   GET /health is served; each sender check draws the outcome of the probe
   request, each buffer check the outcome of Count. *)

\* count above which BufferHealthChecker reports degraded
HighBufferCount == 1000

\* outcomes of client.Do in HTTPSender.Health: a transport error, or a
\* response with a status code
Probes ==
    {[err |-> TRUE, code |-> 0]}
      \cup {[err |-> FALSE, code |-> c] : c \in {200, 404, 499, 500, 503}}

\* HTTPSender.Health: the error it returns ("" for nil)
Health(probe) ==
    IF probe.err THEN "health check failed"
    ELSE IF probe.code >= 500 THEN "server unhealthy"
    ELSE ""

\* SenderHealthChecker.Check
SenderCheck(err) ==
    IF err # "" THEN [status |-> "degraded", message |-> err]
    ELSE [status |-> "healthy", message |-> ""]

\* outcomes of SQLiteBuffer.Count as the buffer checker sees them
Counts ==
    {[err |-> TRUE, n |-> 0]}
      \cup {[err |-> FALSE, n |-> c] :
              c \in {0, HighBufferCount, HighBufferCount + 1}}

\* BufferHealthChecker.Check
BufferCheck(count) ==
    IF count.err THEN [status |-> "unhealthy", message |-> "count failed"]
    ELSE IF count.n > HighBufferCount
         THEN [status |-> "degraded", message |-> "high buffer count"]
    ELSE [status |-> "healthy", message |-> ""]

\* what the check of the checker called name can be given
CheckInputs(name) == IF name = "sender" THEN Probes ELSE Counts

\* checker.Check for the checker called name
Check(name, in) ==
    IF name = "sender" THEN SenderCheck(Health(in)) ELSE BufferCheck(in)

\* an aggregation in which the last check decides
Worse_LastWins(acc, status) == status

\* the update of response.Status by one check
Worse(acc, status) ==
    IF status = "unhealthy" THEN "unhealthy"
    ELSE IF status = "degraded" /\ acc = "healthy" THEN "degraded"
    ELSE acc

RECURSIVE Overall(_, _)
\* response.Status after the first k components
Overall(components, k) ==
    IF k = 0 THEN "healthy"
    ELSE Worse(Overall(components, k - 1), components[k].status)

\* the response of GET /health when the checks are given the inputs ins
HealthResponse(names, ins) ==
    LET components ==
          [k \in 1..Len(names) |->
             LET c == Check(names[k], ins[k])
             IN  [name |-> names[k], status |-> c.status,
                  message |-> c.message]]
        status == Overall(components, Len(names))
    IN  [status |-> status, components |-> components,
         code |-> IF status = "unhealthy" THEN 503 ELSE 200]

AddChecker ==
    /\ Len(checkers) < MaxCheckers
    /\ \E name \in {"sender", "buffer"} : checkers' = Append(checkers, name)
    /\ UNCHANGED <<retry, bufferEnabled, now, cancelled, queue, snd, mgrVars,
                   last>>

handleHealth ==
    /\ \E ins \in [1..Len(checkers) -> Probes \cup Counts] :
         /\ \A k \in 1..Len(checkers) : ins[k] \in CheckInputs(checkers[k])
         /\ last' = [NoCall EXCEPT
                       !.op = "handleHealth",
                       !.arg = [checkers |-> checkers, ins |-> ins],
                       !.ret = HealthResponse(checkers, ins)]
    /\ UNCHANGED <<cfgVars, now, cancelled, queue, snd, mgrVars>>

InitHealth ==
    /\ retry = ManagerRetry
    /\ cancelled = FALSE
    /\ snd = [c \in Callers |-> IdleFrame]
    /\ MgrIdle

NextHealth == AddChecker \/ handleHealth

SpecHealth == InitHealth /\ [][NextHealth]_vars

-----------------------------------------------------------------------------
(* The transform of the adapter on its own: transformData is applied to a
   list of configured fields and a decoded payload. *)

FieldTypes == {"float", "int", "bool", "string"}

\* source keys (and target names) of the configured fields, by position
FieldNames == <<"p1", "p2", "p3", "p4", "p5">>

\* values json.Unmarshal puts into a map[string]any: nil for null, float64
\* for every number, bool, string, and a nested object
RawValues ==
    {[tag |-> "nil", text |-> "null"],
     [tag |-> "float", text |-> "1.5"],
     [tag |-> "float", text |-> "0"],
     [tag |-> "bool", text |-> "true"],
     [tag |-> "string", text |-> "7"],
     [tag |-> "string", text |-> "1.5"],
     [tag |-> "string", text |-> "on"],
     [tag |-> "string", text |-> "abc"],
     [tag |-> "object", text |-> "map[]"]}

\* strconv.ParseFloat(t, 64) returns no error
ParseFloatOK(t) == t \in {"0", "1.5", "7", "NaN"}

\* strconv.Atoi(t) returns no error
AtoiOK(t) == t \in {"0", "7"}

\* the strings strconv.ParseBool accepts, and those it reads as true
ParseBoolOK(t) ==
    t \in {"1", "t", "T", "TRUE", "true", "True",
           "0", "f", "F", "FALSE", "false", "False"}

ParseBoolTrue(t) == t \in {"1", "t", "T", "TRUE", "true", "True"}

\* int(val) of a float64: the fraction is cut off
IntText(t) == IF t = "1.5" THEN "1" ELSE t

BoolText(b) == IF b THEN "true" ELSE "false"

\* a converted value with its quality
Converted(tag, text, quality) ==
    [value |-> [tag |-> tag, text |-> text], quality |-> quality]

NilBad == Converted("nil", "null", "bad")

toFloat(v) ==
    CASE v.tag = "float" -> Converted("float", v.text, "good")
      [] v.tag = "string" ->
           IF ParseFloatOK(v.text) THEN Converted("float", v.text, "good")
           ELSE NilBad
      [] OTHER -> NilBad

toInt(v) ==
    CASE v.tag = "float" -> Converted("int", IntText(v.text), "good")
      [] v.tag = "string" ->
           IF AtoiOK(v.text) THEN Converted("int", v.text, "good")
           ELSE NilBad
      [] OTHER -> NilBad

toBool(v) ==
    CASE v.tag = "bool" -> Converted("bool", v.text, "good")
      [] v.tag = "float" -> Converted("bool", BoolText(v.text # "0"), "good")
      [] v.tag = "string" ->
           IF ParseBoolOK(v.text)
           THEN Converted("bool", BoolText(ParseBoolTrue(v.text)), "good")
           ELSE Converted("bool", BoolText(v.text \in {"1", "on", "true"}),
                          "good")
      [] OTHER -> NilBad

convertValue(rawValue, fieldType) ==
    IF rawValue.tag = "nil" THEN NilBad
    ELSE CASE fieldType = "float" -> toFloat(rawValue)
           [] fieldType = "int" -> toInt(rawValue)
           [] fieldType = "bool" -> toBool(rawValue)
           [] fieldType = "string" -> Converted("string", rawValue.text, "good")
           [] OTHER -> Converted(rawValue.tag, rawValue.text, "good")

\* a transform that leaves out the fields missing from the payload
MissingPoint_Dropped(field) == <<>>

\* what transformData appends for a field whose source is not in the payload
MissingPoint(field) ==
    <<Point(field.target, "nil", "null", field.unit, "bad", "")>>

RECURSIVE transformData(_, _, _)
\* dataPoints after the first n fields
transformData(rawData, fields, n) ==
    IF n = 0 THEN <<>>
    ELSE LET field == fields[n]
             dataPoints == transformData(rawData, fields, n - 1)
         IN  IF field.source \notin DOMAIN rawData
             THEN dataPoints \o MissingPoint(field)
             ELSE LET c == convertValue(rawData[field.source], field.type)
                  IN  Append(dataPoints,
                             Point(field.target, c.value.tag, c.value.text,
                                   field.unit, c.quality, field.severity))

\* device.Fields with the given types; boolean fields are the alarm fields
FieldsOf(types) ==
    [k \in 1..Len(types) |->
       [source |-> FieldNames[k], target |-> FieldNames[k],
        type |-> types[k], unit |-> "kW",
        severity |-> IF types[k] = "bool" THEN "alarm" ELSE ""]]

\* the call transformData(rawData, device.Fields) on the arguments held
\* in last
DirectTransform ==
    /\ last.op = "arguments"
    /\ last' = [last EXCEPT
                  !.op = "transformData",
                  !.ret = transformData(last.arg.rawData, last.arg.fields,
                                        Len(last.arg.fields))]
    /\ UNCHANGED <<cfgVars, now, cancelled, queue, snd, mgrVars>>

\* the arguments of the call: up to MaxFields configured fields of any
\* types and any payload over their sources
InitAdapter ==
    /\ retry = ManagerRetry
    /\ cancelled = FALSE
    /\ snd = [c \in Callers |-> IdleFrame]
    /\ bufferEnabled = TRUE
    /\ checkers = <<>>
    /\ now = 0
    /\ queue = {}
    /\ cpc = "start"
    /\ tick = FALSE
    /\ polls = {}
    /\ results = <<>>
    /\ closed = TRUE
    /\ envelope = NoEnvelope
    /\ nextId = 1
    /\ rpc = "none"
    /\ rtick = FALSE
    /\ pending = <<>>
    /\ idx = 0
    /\ sentIDs = <<>>
    /\ stopCh = FALSE
    /\ collectorClosed = FALSE
    /\ bufferClosed = FALSE
    /\ cycleLog = <<>>
    /\ markArg = NoMark
    /\ fate = <<>>
    /\ roundLog = NoRound
    /\ \E n \in 0..MaxFields :
         \E types \in [1..n -> FieldTypes] :
           \E S \in SUBSET {FieldNames[k] : k \in 1..n} :
             \E rawData \in [S -> RawValues] :
               last = [NoCall EXCEPT
                         !.op = "arguments",
                         !.arg = [fields |-> FieldsOf(types),
                                  rawData |-> rawData]]

NextAdapter == DirectTransform

SpecAdapter == InitAdapter /\ [][NextAdapter]_vars

-----------------------------------------------------------------------------
(* internal/sender/retry.go on its own: an ExponentialBackoff is built from
   the delays of a retry configuration and NextDelay is called on it.  A
   time.Duration is a whole number of units, Grain of them to a tick;
   rand.Float64() returns one of the RandSteps values k / RandSteps. *)

\* Multiplier and Jitter (in percent) set by NewExponentialBackoff
Multiplier == 2

JitterPercent == 10

NewExponentialBackoff(initial, max) ==
    [InitialDelay |-> initial, MaxDelay |-> max]

RECURSIVE Grown(_, _, _)
\* delay after n more rounds of the loop of NextDelay
Grown(delay, max, n) ==
    IF n = 0 THEN delay
    ELSE IF delay * Multiplier > max THEN max
    ELSE Grown(delay * Multiplier, max, n - 1)

\* NextDelay(attempt) when rand.Float64() returns r / RandSteps; the float
\* delay + jitter is the fraction num / den, and time.Duration(delay) cuts
\* off what is left of a unit
NextDelay(b, attempt, r) ==
    IF attempt <= 0 THEN b.InitialDelay
    ELSE LET delay == Grown(b.InitialDelay, b.MaxDelay, attempt)
             den == 100 * RandSteps
             num == delay * (den + JitterPercent * (2 * r - RandSteps))
         IN  IF num > b.MaxDelay * den THEN b.MaxDelay ELSE num \div den

DirectNextDelay ==
    /\ \E attempt \in (-1)..MaxAttemptsBound, r \in 0..(RandSteps - 1) :
         LET b == NewExponentialBackoff(retry.InitialDelay * Grain,
                                        retry.MaxDelay * Grain)
         IN  last' = [NoCall EXCEPT
                        !.op = "NextDelay",
                        !.arg = [b |-> b, attempt |-> attempt, r |-> r],
                        !.ret = NextDelay(b, attempt, r)]
    /\ UNCHANGED <<cfgVars, now, cancelled, queue, snd, mgrVars>>

InitBackoff ==
    /\ retry \in RetryConfigs
    /\ cancelled = FALSE
    /\ snd = [c \in Callers |-> IdleFrame]
    /\ MgrIdle

NextBackoff == DirectNextDelay

SpecBackoff == InitBackoff /\ [][NextBackoff]_vars

-----------------------------------------------------------------------------
(* The log-only sender of internal/sender/sender.go on its own: Send or
   SendBatch is called once on a batch of envelopes, with the context
   cancelled or not. *)

\* LogSender.Send: json.MarshalIndent fails for a NaN value; otherwise the
\* envelope is written to the log and nil is returned.  The context is not
\* looked at.  logged lists the ids written to the log.
LogSend(e) ==
    IF HasNaN(e.values)
    THEN [err |-> "marshalErr", at |-> e.id, logged |-> <<>>]
    ELSE [err |-> "", at |-> 0, logged |-> <<e.id>>]

\* a SendBatch that goes on after a failed Send
BatchStops_Never(err) == FALSE

\* line 187: the loop of SendBatch returns on the first error
BatchStops(err) == err # ""

RECURSIVE LogSendBatch(_, _)
\* LogSender.SendBatch from the k-th envelope on
LogSendBatch(es, k) ==
    IF k > Len(es) THEN [err |-> "", at |-> 0, logged |-> <<>>]
    ELSE LET r == LogSend(es[k])
         IN  IF BatchStops(r.err) THEN r
             ELSE LET rest == LogSendBatch(es, k + 1)
                  IN  [err |-> rest.err, at |-> rest.at,
                       logged |-> r.logged \o rest.logged]

\* the envelopes of a batch whose k-th envelope carries the sample kinds[k]
BatchOf(kinds) ==
    [k \in 1..Len(kinds) |->
       [id |-> k, nan |-> kinds[k] = "nan", timestamp |-> 0,
        values |-> SampleValues(kinds[k])]]

DirectLogSend ==
    /\ last.op = "arguments"
    /\ Len(last.arg) >= 1
    /\ last' = [last EXCEPT !.op = "Send", !.ret = LogSend(last.arg[1])]
    /\ UNCHANGED <<cfgVars, now, cancelled, queue, snd, mgrVars>>

DirectLogSendBatch ==
    /\ last.op = "arguments"
    /\ last' = [last EXCEPT !.op = "SendBatch",
                            !.ret = LogSendBatch(last.arg, 1)]
    /\ UNCHANGED <<cfgVars, now, cancelled, queue, snd, mgrVars>>

InitLogSender ==
    /\ retry = ManagerRetry
    /\ cancelled \in BOOLEAN
    /\ snd = [c \in Callers |-> IdleFrame]
    /\ bufferEnabled = TRUE
    /\ checkers = <<>>
    /\ now = 0
    /\ queue = {}
    /\ cpc = "start"
    /\ tick = FALSE
    /\ polls = {}
    /\ results = <<>>
    /\ closed = TRUE
    /\ envelope = NoEnvelope
    /\ nextId = 1
    /\ rpc = "none"
    /\ rtick = FALSE
    /\ pending = <<>>
    /\ idx = 0
    /\ sentIDs = <<>>
    /\ stopCh = FALSE
    /\ collectorClosed = FALSE
    /\ bufferClosed = FALSE
    /\ cycleLog = <<>>
    /\ markArg = NoMark
    /\ fate = <<>>
    /\ roundLog = NoRound
    /\ \E n \in 0..MaxBatch :
         \E kinds \in [1..n -> {"good", "nan", "empty"}] :
           last = [NoCall EXCEPT !.op = "arguments", !.arg = BatchOf(kinds)]

NextLogSender == DirectLogSend \/ DirectLogSendBatch

SpecLogSender == InitLogSender /\ [][NextLogSender]_vars

-----------------------------------------------------------------------------
(* Properties of the manager, checked under Spec *)

\* a replay cycle is between GetPending and the return of processBufferedData
InCycle == rpc \in {"send", "ack", "cleanup"}

\* ids whose Send succeeded in the current replay cycle
CycleOk == {cycleLog[k].id : k \in {j \in 1..Len(cycleLog) : cycleLog[j].res = "ok"}}

\* C1: in a replay cycle Send is called on the envelopes of the fetched batch
\* (at most BatchLimit of them) in the order GetPending returned them, each
\* at most once, and a Send that returned an error is the last call of the
\* cycle; without an error the whole batch is attempted.
C1_ReplayInFetchedOrder ==
    InCycle =>
      /\ Len(pending) <= BatchLimit
      /\ Len(cycleLog) >= 1
      /\ Len(cycleLog) <= Len(pending)
      /\ \A k \in 1..Len(cycleLog) : cycleLog[k].id = pending[k].id
      /\ \A k \in 1..(Len(cycleLog) - 1) : cycleLog[k].res = "ok"
      /\ rpc = "send" <=> cycleLog[Len(cycleLog)].res = "running"
      /\ (rpc # "send" /\ cycleLog[Len(cycleLog)].res = "ok")
           => Len(cycleLog) = Len(pending)

C1_Witness ==
    /\ rpc = "ack"
    /\ Len(pending) = 2
    /\ Len(cycleLog) = 1
    /\ cycleLog[1].res = "err"

\* C2: after the acknowledgment step of a replay cycle the ids handed to
\* MarkSent are exactly the ids whose Send succeeded in the cycle (MarkSent is
\* not called when there are none); when MarkSent did not fail they are gone
\* from the queue, and every envelope of the batch whose Send failed or was
\* not attempted is still queued.
C2_AckExactlyDelivered ==
    rpc = "cleanup" =>
      /\ Range(markArg.ids) = CycleOk
      /\ markArg.called <=> CycleOk # {}
      /\ Len(markArg.ids) = Cardinality(CycleOk)
      /\ (markArg.called /\ ~markArg.err) => CycleOk \cap Ids(queue) = {}
      /\ \A k \in 1..Len(pending) :
           pending[k].id \notin CycleOk => pending[k].id \in Ids(queue)

C2_Witness ==
    /\ rpc = "cleanup"
    /\ markArg.called
    /\ ~markArg.err
    /\ Len(cycleLog) = 2
    /\ cycleLog[2].res = "err"

\* the step in which a Send of the replay loop is delivered
ReplayDelivers ==
    /\ snd["replay"].pc = "attempt"
    /\ snd'["replay"].result = "ok"

\* the envelope the replay loop is sending
Sending == cycleLog[Len(cycleLog)].id

\* C3 as stated: the replay loop never delivers a queued record while a record
\* with an earlier creation time is still in the queue.
C3_NoEarlierStillQueued ==
    [][ReplayDelivers =>
         \A r \in queue :
           ~(r.created_at < Row(queue, Sending).created_at)]_vars

\* C3 amended: the replay loop never delivers a queued record while a record
\* with an earlier creation time is still in the queue, unless that earlier
\* record was itself delivered earlier in the same cycle and only awaits the
\* cycle's MarkSent.
C3_NoEarlierUndelivered ==
    [][ReplayDelivers =>
         /\ Sending \in Ids(queue)
         /\ \A r \in queue :
              r.created_at < Row(queue, Sending).created_at
                => r.id \in CycleOk]_vars

C3_Witness ==
    /\ rpc = "send"
    /\ Len(cycleLog) = 2
    /\ snd["replay"].result = "ok"
    /\ \E r \in queue :
         /\ r.id = cycleLog[1].id
         /\ r.created_at < Row(queue, Sending).created_at

\* C4: with buffering on, an envelope whose Send succeeded is never stored
\* (no Store call, never a row of the queue); an envelope whose Send failed
\* gets exactly one Store call; when that Store failed the envelope is never
\* in the queue; and the round has moved on once the envelope is settled.
C4_StoreOnceOnFailure ==
    bufferEnabled =>
      \A id \in 1..Len(fate) :
        /\ fate[id].send = "ok" => fate[id].stores = 0 /\ id \notin Ids(queue)
        /\ fate[id].send = "err" => fate[id].stores = 1
        /\ (fate[id].send = "err" /\ ~fate[id].kept) => id \notin Ids(queue)
        /\ id \in Ids(queue) => fate[id].send = "err" /\ fate[id].kept
        /\ fate[id].send = "running" <=> (cpc = "send" /\ envelope.id = id)

C4_Witness ==
    /\ bufferEnabled
    /\ Len(fate) = 2
    /\ fate[1].send = "err"
    /\ ~fate[1].kept
    /\ fate[2].send = "running"
    /\ polls = {}
    /\ ~tick

\* the real creation times (in ticks) a row's created_at second stands for
\* all lie more than maxAge before t
OlderThan(r, t, maxAge) == t - (r.created_at * Res + (Res - 1)) > maxAge

\* C5: the queue changes only in three ways: a collection round adds the row
\* of the envelope whose Send just failed; the acknowledgment step of a replay
\* cycle removes rows of envelopes whose Send succeeded in that cycle; the
\* cleanup step removes rows older than MaxAge.  Rows are never altered.
C5_QueueLifecycle ==
    [][queue' # queue =>
         \/ /\ cpc = "send"
            /\ snd["coll"].pc = "ret"
            /\ snd["coll"].result # "ok"
            /\ envelope.id \notin Ids(queue)
            /\ \E c \in 0..Format(MaxTime) :
                 queue' = queue \cup {ToRow(envelope, c)}
         \/ /\ rpc = "ack"
            /\ queue' \subseteq queue
            /\ Ids(queue \ queue') \subseteq CycleOk
         \/ /\ rpc = "cleanup"
            /\ queue' \subseteq queue
            /\ \A r \in queue \ queue' : OlderThan(r, now, MaxAge)]_vars

C5_Witness ==
    /\ rpc = "cleanup"
    /\ markArg.called
    /\ ~markArg.err
    /\ queue # {}
    /\ \E r \in queue : OlderThan(r, now, MaxAge)

\* C16: while the collection round is inside a Send call, no poll of the
\* round is still running.
C16_NoSendBeforePollsDone == cpc = "send" => polls = {}

\* the step in which collectAndSend returns
RoundEnds == cpc = "range" /\ cpc' = "select"

\* C17: in a collection round no device gets more than one Send call, a
\* device whose poll failed (or has not finished) gets none, and when the
\* round ends every device's poll has finished and every device whose poll
\* returned a non-empty sample has had exactly one envelope built and one
\* Send call, whatever the polls of the other devices returned.
C17_FailedPollSkipsDeviceOnly ==
    [][/\ \A d \in Devices :
            /\ roundLog'[d].sends <= 1
            /\ roundLog'[d].kind \in {"none", "err"} => roundLog'[d].sends = 0
       /\ RoundEnds =>
            \A d \in Devices :
              /\ roundLog[d].kind # "none"
              /\ roundLog[d].kind \in {"good", "nan"} => roundLog[d].sends = 1]_vars

C17_Witness ==
    /\ cpc = "range"
    /\ closed
    /\ results = <<>>
    /\ \E d, o \in Devices :
         /\ roundLog[d].kind = "err"
         /\ roundLog[o].kind = "good"
         /\ roundLog[o].sends = 1

\* the step in which the range loop takes a sample without data points
TakesEmpty ==
    /\ cpc = "range"
    /\ results # <<>>
    /\ SampleValues(Head(results).kind) = <<>>
    /\ results' = Tail(results)

\* C18: a literal boolean response body makes Collect return a sample without
\* data points; the round takes such a sample from the channel without
\* building an envelope, calling Send or touching the queue, and a device
\* whose sample had no data points never gets a Send call in the round.
C18_EmptySampleSkipped ==
    [][/\ \A body \in {"True", "False", "true", "false"} :
            SampleValues(CollectResult(body)) = <<>>
       /\ \A d \in Devices :
            roundLog'[d].kind = "empty" => roundLog'[d].sends = 0
       /\ TakesEmpty =>
            /\ cpc' = "range"
            /\ UNCHANGED <<envelope, nextId, snd, queue, fate>>]_vars

C18_Witness ==
    /\ cpc = "range"
    /\ closed
    /\ results = <<>>
    /\ \E d, o \in Devices :
         /\ roundLog[d].kind = "empty"
         /\ roundLog[o].kind = "good"
         /\ roundLog[o].sends = 1

\* C19: once Start has returned, retryBufferedData has returned too.
C19_StartReturnsAfterBothLoops == cpc = "returned" => rpc = "done"

\* a call on the buffer is in progress or can still be issued
BufferInUse ==
    \/ rpc \in {"entry", "select", "send", "ack", "cleanup"}
    \/ cpc \in {"start", "range", "send", "select"}

C21_ShutdownTerminates == cancelled ~> (cpc = "returned" /\ rpc = "done")

\* Start has returned and the replay goroutine has exited after a shutdown
\* signal, with one envelope left in the queue and a second one whose Send
\* and Store both failed
C21_Witness ==
    /\ cancelled
    /\ cpc = "returned"
    /\ rpc = "done"
    /\ Len(fate) = 2
    /\ fate[1].kept
    /\ 1 \in Ids(queue)
    /\ fate[2].send = "err"
    /\ fate[2].stores = 1
    /\ ~fate[2].kept

\* the step in which processBufferedData returns to the loop of
\* retryBufferedData
CycleReturns ==
    /\ rpc' = "select"
    /\ \/ rpc \in {"send", "ack", "cleanup"}
       \/ (rpc = "select" /\ rtick /\ ~rtick')

\* C22: processBufferedData never returns without having called Cleanup: the
\* step in which it returns is the Cleanup step, also when GetPending failed
\* or returned nothing.
C22_CleanupEveryCycle == [][CycleReturns => rpc = "cleanup"]_vars

\* the step in which the collection round handles the result of a Send
RoundSettles == cpc = "send" /\ cpc' = "range"

\* the step in which a replay cycle has called MarkSent and got no error
CycleAcks == rpc = "ack" /\ rpc' = "cleanup" /\ markArg'.called /\ ~markArg'.err

\* C23: Count is the number of pending envelopes (one row per id).  When a
\* Send of the collection round has failed on all attempts and the Store that
\* follows returns no error, the envelope is a new row of the queue and Count
\* is one higher; when a replay cycle acknowledges the envelopes whose Send
\* succeeded, exactly those leave the queue and Count drops by their number,
\* so that storing an envelope and later delivering it leaves Count as it was.
C23_CountFollowsPending ==
    [][/\ Count(queue') = Cardinality(Ids(queue'))
       /\ (RoundSettles /\ snd["coll"].result = "allFailed"
             /\ fate'[envelope.id].kept) =>
            /\ envelope.id \notin Ids(queue)
            /\ envelope.id \in Ids(queue')
            /\ Count(queue') = Count(queue) + 1
       /\ CycleAcks =>
            /\ CycleOk \subseteq Ids(queue)
            /\ Ids(queue') = Ids(queue) \ CycleOk
            /\ Count(queue') = Count(queue) - Cardinality(CycleOk)]_vars

C23_Witness ==
    /\ rpc = "cleanup"
    /\ markArg.called
    /\ ~markArg.err
    /\ Len(fate) >= 1
    /\ fate[1].kept
    /\ 1 \in Range(markArg.ids)
    /\ 1 \notin Ids(queue)
    /\ Count(queue) = 0

\* C25: once the context is cancelled, the select of Start does not take the
\* ticker case: no collectAndSend begins.
C25_NoRoundAfterCancel ==
    [][cancelled => ~(cpc = "select" /\ cpc' = "range")]_vars

\* the step in which a call of collectAndSend begins: the first call made by
\* Start, or the one made when the select takes a tick
RoundBegins ==
    /\ cpc' = "range"
    /\ \/ cpc = "start"
       \/ (tick /\ ~tick')

\* no collectAndSend is in progress: no poll is running, the results channel
\* of the last round is closed and drained, no Send of the loop is running
NoRoundRunning ==
    /\ cpc \in {"start", "select"}
    /\ polls = {}
    /\ closed
    /\ results = <<>>
    /\ snd["coll"].pc = "idle"
    /\ envelope = NoEnvelope

\* C32: a call of collectAndSend begins only when none is in progress; a
\* tick that fires while a round is polling or delivering waits in the
\* ticker's channel until the round has returned.
C32_RoundsNeverOverlap ==
    [][/\ RoundBegins => NoRoundRunning
       /\ (tick' /\ ~tick /\ cpc \in {"range", "send"}) =>
            UNCHANGED <<cpc, polls, results, closed, envelope, snd>>]_vars

\* a second round has begun, with a new tick already waiting, after the
\* envelope of an earlier round was settled
C32_Witness ==
    /\ cpc = "range"
    /\ polls = Devices
    /\ ~closed
    /\ tick
    /\ Len(fate) >= 1
    /\ fate[1].send # "running"

\* a call of collectAndSend is in progress
InRound == cpc \in {"range", "send"}

\* C33: while a poll task is running the results channel has room for its
\* sample, so no poll blocks on handing over; the channel is closed once per
\* round and only when every poll task has finished; outside a round no poll
\* task is left and the channel is closed and drained; and under fair
\* scheduling every round returns.
C33_RoundTerminatesClean ==
    /\ [](polls # {} => Len(results) + Cardinality(polls) <= ChanCap)
    /\ [](~InRound => (polls = {} /\ closed /\ results = <<>>))
    /\ [][/\ (closed' /\ ~closed) => (polls = {} /\ InRound)
          /\ (~closed' /\ closed) => RoundBegins]_vars
    /\ (InRound ~> cpc = "select")

\* every poll of the round has handed over a sample before the loop took
\* one: the channel is full, closed, and no poll is left
C33_Witness ==
    /\ cpc = "range"
    /\ polls = {}
    /\ closed
    /\ Len(results) = ChanCap
    /\ \A d \in Devices : roundLog[d].kind # "err"

\* the step in which a replay cycle takes the result of a Send that
\* succeeded
ReplaySucceeds ==
    /\ rpc = "send"
    /\ snd["replay"].pc = "ret"
    /\ snd["replay"].result = "ok"
    /\ cycleLog' # cycleLog

\* C34: a replay cycle never delivers an envelope that a replay Send has
\* already delivered before.
C34_NoSecondDelivery ==
    [][ReplaySucceeds => ~fate[pending[idx].id].replayed]_vars

\* the step in which a collection round takes the result of a Send that the
\* cancelled context ended, with buffering on and an envelope that can be
\* marshalled
RoundAborted ==
    /\ RoundSettles
    /\ snd["coll"].result = "ctxErr"
    /\ bufferEnabled
    /\ ~envelope.nan

\* C35: an envelope whose Send was ended by the cancelled context is in the
\* queue when the round goes on.
C35_AbortedSendIsStored ==
    [][RoundAborted => envelope.id \in Ids(queue')]_vars

\* a step in which a Send returns an error
SendFailure ==
    \E c \in {"coll", "replay"} :
      /\ snd[c].pc # "ret"
      /\ snd'[c].pc = "ret"
      /\ snd'[c].result # "ok"

\* a step in which GetPending or MarkSent of a replay cycle returns an error
QueueFailure ==
    \/ (rpc = "select" /\ rtick /\ ~rtick' /\ rpc' = "select" /\ queue # {})
    \/ (rpc = "ack" /\ rpc' = "cleanup" /\ markArg'.called /\ markArg'.err)

\* a step that delays the draining of the queue
Trouble == SendFailure \/ QueueFailure

PendingIds == {pending[k].id : k \in 1..Len(pending)}

\* C26: a row stored while a replay cycle is running (its id is not in the
\* fetched batch) is not removed by the cycle unless it is older than MaxAge,
\* and every row the cycle removes was either delivered in the cycle or is
\* older than MaxAge: the Store takes effect as if it ran before or after the
\* cycle's queue operations.
C26_StoreDuringCycle ==
    [][InCycle =>
         /\ CycleOk \subseteq PendingIds
         /\ \A r \in queue :
              r.id \notin PendingIds =>
                \/ r \in queue'
                \/ (rpc = "cleanup" /\ OlderThan(r, now, MaxAge))
         /\ \A r \in queue \ queue' :
              \/ (rpc = "ack" /\ r.id \in CycleOk)
              \/ (rpc = "cleanup" /\ OlderThan(r, now, MaxAge))
         /\ \A r \in queue' \ queue :
              /\ cpc = "send"
              /\ r.id = envelope.id
              /\ r.id \notin PendingIds]_vars

C26_Witness ==
    /\ rpc = "cleanup"
    /\ markArg.called
    /\ ~markArg.err
    /\ \E r \in queue : r.id \notin PendingIds

-----------------------------------------------------------------------------
(* Properties of the sender, checked under SpecSender *)

\* the Send of the direct caller
Direct == snd["direct"]

\* the attempts of a frame that failed
Failures(f) == {k \in 1..Len(f.outcomes) : f.outcomes[k] = "fail"}

\* C6: Send makes attempts numbered 1..MaxAttempts; a successful attempt is
\* the last one and Send returns success right after it; there are never more
\* than MaxAttempts attempts; the aggregate error is returned only after
\* exactly MaxAttempts failed attempts, wraps the error of the last attempt,
\* and no wait follows the final attempt.
C6_BoundedAttempts ==
    LET f == Direct
        n == Len(f.outcomes)
    IN  /\ n <= retry.MaxAttempts
        /\ f.pc = "attempt" => f.attempt = n + 1 /\ f.attempt <= retry.MaxAttempts
        /\ \A k \in 1..(n - 1) : f.outcomes[k] = "fail"
        /\ (n >= 1 /\ f.outcomes[n] = "ok") <=> f.result = "ok"
        /\ f.result = "ok" => f.pc = "ret"
        /\ f.result = "allFailed" <=>
             (f.pc = "ret" /\ Cardinality(Failures(f)) = retry.MaxAttempts)
        /\ f.result = "allFailed" => f.lastErr = retry.MaxAttempts
        /\ Len(f.waits) <= retry.MaxAttempts - 1
        /\ Len(f.waits) <= Cardinality(Failures(f))

C6_Witness ==
    /\ retry.MaxAttempts = 3
    /\ Direct.result = "allFailed"
    /\ Len(Direct.outcomes) = 3
    /\ Len(Direct.waits) = 2

\* C7: when the context is cancelled while Send waits between attempts, the
\* next step of Send returns the cancellation error and no attempt is added.
C7_CancelDuringWait ==
    [][(Direct.pc = "wait" /\ cancelled /\ snd'["direct"] # Direct)
         => /\ snd'["direct"].pc = "ret"
            /\ snd'["direct"].result = "ctxErr"
            /\ snd'["direct"].outcomes = Direct.outcomes]_vars

C7_Witness ==
    /\ Direct.pc = "ret"
    /\ Direct.result = "ctxErr"
    /\ Len(Direct.outcomes) = 1
    /\ retry.MaxAttempts = 3

\* C8: the wait after the k-th failed attempt is
\* min(InitialDelay * 2^(k-1), MaxDelay).
C8_DelaySchedule ==
    \A k \in 1..Len(Direct.waits) :
      Direct.waits[k] = Min(retry.InitialDelay * Pow2(k - 1), retry.MaxDelay)

\* C9: the delays of one Send never decrease from one wait to the next and
\* none exceeds MaxDelay, whatever the retry configuration.
C9_DelaysMonotoneCapped ==
    \A k \in 1..Len(Direct.waits) :
      /\ Direct.waits[k] <= retry.MaxDelay
      /\ k > 1 => Direct.waits[k - 1] <= Direct.waits[k]

-----------------------------------------------------------------------------
(* Properties of the buffer, checked under SpecBuffer *)

\* C10: a Store of an identifier already in the table, with nothing else
\* failing, returns no error and leaves the table as it was.
C10_DuplicateStoreIsNoOp ==
    (/\ last.op = "Store"
     /\ ~last.fault
     /\ last.arg[1] \in Ids(last.before))
      => (~last.err /\ queue = last.before)

\* the row a returned envelope was read from
RowOf(e) == Row(last.before, e.id)

\* C11: a GetPending(limit) that returned no error, after any sequence of
\* Store, MarkSent and Cleanup, returns at most limit envelopes (all of the
\* table when it holds fewer), each of a different row that is in the table
\* now, in non-decreasing created_at order, and no row left out is older than
\* a row returned.
C11_GetPendingOldestFirst ==
    (last.op = "GetPending" /\ ~last.err) =>
      LET p == last.ret
          limit == last.arg[1]
      IN  /\ Len(p) <= limit
          /\ Len(p) = Min(limit, Cardinality(queue))
          /\ queue = last.before
          /\ \A k \in 1..Len(p) : p[k].id \in Ids(queue)
          /\ \A j, k \in 1..Len(p) : j # k => p[j].id # p[k].id
          /\ \A j, k \in 1..Len(p) :
               j < k => RowOf(p[j]).created_at <= RowOf(p[k]).created_at
          /\ \A r \in queue :
               r.id \notin {p[k].id : k \in 1..Len(p)} =>
                 \A k \in 1..Len(p) : RowOf(p[k]).created_at <= r.created_at

C11_Witness ==
    /\ last.op = "GetPending"
    /\ ~last.err
    /\ last.arg[1] = 1
    /\ Len(last.ret) = 1
    /\ Cardinality(queue) = 2
    /\ \E r \in queue : RowOf(last.ret[1]).created_at < r.created_at

\* C12: whatever happens during MarkSent(ids) (success, an error at any
\* step, the process dying), afterwards either every row with a listed id is
\* gone and the call returned no error, or the table is exactly as before
\* and the call returned an error; rows with other ids are never touched.
C12_MarkSentAllOrNothing ==
    last.op = "MarkSent" =>
      \/ /\ ~last.err
         /\ queue = {r \in last.before : r.id \notin Range(last.arg)}
      \/ /\ last.err
         /\ queue = last.before

C12_Witness ==
    /\ last.op = "MarkSent"
    /\ last.err
    /\ Len(last.arg) = 2
    /\ Range(last.arg) \subseteq Ids(queue)

\* C13: a MarkSent that nothing interrupts returns no error and leaves the
\* table unchanged when none of its ids is in the table, in particular when
\* it repeats the previous, successful MarkSent call.
C13_MarkSentIdempotent ==
    [][(/\ last'.op = "MarkSent"
        /\ ~last'.fault
        /\ \/ Range(last'.arg) \cap Ids(queue) = {}
           \/ (last.op = "MarkSent" /\ ~last.err /\ last.arg = last'.arg))
         => (~last'.err /\ queue' = queue)]_vars

C13_Witness ==
    /\ last.op = "MarkSent"
    /\ ~last.fault
    /\ ~last.err
    /\ Len(last.arg) = 1
    /\ Range(last.arg) \cap Ids(last.before) = {}
    /\ queue # {}

\* C14: a Cleanup(maxAge) that returned no error leaves exactly the rows
\* that were not stored earlier than maxAge before the call.
C14_CleanupExactlyOlder ==
    (last.op = "Cleanup" /\ ~last.err) =>
      queue = {r \in last.before :
                 ~(last.born[r.id] < last.at - last.arg[1])}

\* the instant t with its sub-second part dropped
Truncated(t) == Parse(Format(t))

\* C15: every envelope GetPending returns has the identifier of a stored
\* envelope and equals it field by field: the timestamp up to truncation to
\* whole seconds, and every data point with the same name, value and dynamic
\* type of the value, unit, quality and severity.
C15_RoundTrip ==
    (last.op = "GetPending" /\ ~last.err) =>
      \A k \in 1..Len(last.ret) :
        LET got == last.ret[k]
            put == last.stored[got.id]
        IN  /\ got.id = put.id
            /\ got.timestamp = Truncated(put.timestamp)
            /\ got.values = put.values

-----------------------------------------------------------------------------
(* Properties of the health server, checked under SpecHealth *)

\* GET /health has been served
Served == last.op = "handleHealth"

\* C24: on the health surface the sender's component is degraded when the
\* probe failed at transport level, unhealthy when the remote answered with
\* a 5xx status, and healthy in every other case.
C24_ProbeClassification ==
    Served =>
      \A k \in 1..Len(last.arg.checkers) :
        last.arg.checkers[k] = "sender" =>
          last.ret.components[k].status =
            IF last.arg.ins[k].err THEN "degraded"
            ELSE IF last.arg.ins[k].code >= 500 THEN "unhealthy"
            ELSE "healthy"

\* the worst of a set of statuses
WorstOf(S) ==
    IF "unhealthy" \in S THEN "unhealthy"
    ELSE IF "degraded" \in S THEN "degraded"
    ELSE "healthy"

\* C29: the overall status of a health response is the worst status among
\* its components (healthy when there is none), whatever the order of
\* registration; the response lists one component per registered checker,
\* in registration order, and is served with 503 exactly when unhealthy.
C29_OverallIsWorst ==
    Served =>
      LET comps == last.ret.components
      IN  /\ Len(comps) = Len(last.arg.checkers)
          /\ \A k \in 1..Len(comps) :
               /\ comps[k].name = last.arg.checkers[k]
               /\ comps[k].status =
                    Check(last.arg.checkers[k], last.arg.ins[k]).status
          /\ last.ret.status =
               WorstOf({comps[k].status : k \in 1..Len(comps)})
          /\ last.ret.code = 503 <=> last.ret.status = "unhealthy"

C29_Witness ==
    /\ Served
    /\ Len(last.ret.components) = 3
    /\ last.ret.components[1].status = "unhealthy"
    /\ last.ret.components[2].status = "degraded"
    /\ last.ret.components[3].status = "healthy"
    /\ last.ret.status = "unhealthy"

-----------------------------------------------------------------------------
(* Properties of the adapter's transform, checked under SpecAdapter *)

\* transformData has been applied
Transformed == last.op = "transformData"

\* the source of field k is in the payload
Present(k) == last.arg.fields[k].source \in DOMAIN last.arg.rawData

\* the strings that spell a boolean
BoolWords ==
    {"1", "t", "T", "TRUE", "true", "True", "on",
     "0", "f", "F", "FALSE", "false", "False", "off"}

\* the raw value can be read as a value of the field type: a number or a
\* numeric string for float and int, a boolean, a number or a boolean word
\* for bool, any value for string
Parses(raw, type) ==
    CASE type = "float" ->
           raw.tag = "float" \/ (raw.tag = "string" /\ ParseFloatOK(raw.text))
      [] type = "int" ->
           raw.tag = "float" \/ (raw.tag = "string" /\ AtoiOK(raw.text))
      [] type = "bool" ->
           \/ raw.tag \in {"bool", "float"}
           \/ (raw.tag = "string" /\ raw.text \in BoolWords)
      [] OTHER -> TRUE

\* the source of field k is present, not null, and parses as the field type
Usable(k) ==
    /\ Present(k)
    /\ last.arg.rawData[last.arg.fields[k].source].tag # "nil"
    /\ Parses(last.arg.rawData[last.arg.fields[k].source],
              last.arg.fields[k].type)

\* C27: a field whose source value is absent, null or does not parse as the
\* field type gives a measurement with value nil and quality bad, and a
\* measurement with quality good comes from a usable source value.
C27_BadUnlessParsed ==
    Transformed =>
      \A k \in 1..Len(last.ret) :
        /\ ~Usable(k) =>
             (last.ret[k].value.tag = "nil" /\ last.ret[k].quality = "bad")
        /\ last.ret[k].quality = "good" => Usable(k)

-----------------------------------------------------------------------------
(* Properties of ExponentialBackoff, checked under SpecBackoff *)

\* min(InitialDelay * 2^attempt, MaxDelay)
CappedExponential(b, attempt) ==
    Min(b.InitialDelay * Pow2(attempt), b.MaxDelay)

\* C30: for every attempt number from 0 on, NextDelay returns a delay that
\* is within JitterPercent of min(InitialDelay * 2^attempt, MaxDelay), up to
\* the unit cut off by the conversion, and is not above MaxDelay.
C30_JitteredCappedDelay ==
    (last.op = "NextDelay" /\ last.arg.attempt >= 0) =>
      LET capped == CappedExponential(last.arg.b, last.arg.attempt)
      IN  /\ last.ret <= last.arg.b.MaxDelay
          /\ 100 * (last.ret + 1) > (100 - JitterPercent) * capped
          /\ 100 * last.ret <= (100 + JitterPercent) * capped

\* the delays of the attempts from 1 on, which the loop of NextDelay
\* computes, are within JitterPercent of the capped exponential value and not
\* above MaxDelay
LoopDelaysWithinJitter ==
    (last.op = "NextDelay" /\ last.arg.attempt >= 1) =>
      LET capped == CappedExponential(last.arg.b, last.arg.attempt)
      IN  /\ last.ret <= last.arg.b.MaxDelay
          /\ 100 * (last.ret + 1) > (100 - JitterPercent) * capped
          /\ 100 * last.ret <= (100 + JitterPercent) * capped

-----------------------------------------------------------------------------
(* Properties of the log-only sender, checked under SpecLogSender *)

\* positions of the envelopes of the batch that cannot be marshalled
Unloggable == {k \in 1..Len(last.arg) : last.arg[k].nan}

\* the position of the first of them, or one past the batch when all can be
\* logged
FirstUnloggable ==
    IF Unloggable = {} THEN Len(last.arg) + 1
    ELSE CHOOSE k \in Unloggable : \A j \in Unloggable : k <= j

\* C31: Send of the log-only sender returns nil and logs the envelope
\* whenever the envelope can be marshalled, cancelled context or not, and an
\* error with nothing logged otherwise; SendBatch logs the envelopes in
\* batch order up to the first one that cannot be logged, returns the error
\* of that one, and logs none of the later envelopes; without such an
\* envelope it logs the whole batch and returns nil.
C31_LogSenderContract ==
    /\ last.op = "Send" =>
         IF last.arg[1].nan
         THEN last.ret.err # "" /\ last.ret.logged = <<>>
         ELSE last.ret.err = "" /\ last.ret.logged = <<last.arg[1].id>>
    /\ last.op = "SendBatch" =>
         /\ last.ret.logged = [k \in 1..(FirstUnloggable - 1) |-> last.arg[k].id]
         /\ last.ret.err # "" <=> Unloggable # {}
         /\ last.ret.err # "" => last.ret.at = last.arg[FirstUnloggable].id

\* a batch of four whose second envelope cannot be logged while the third
\* can: one envelope logged, the failure of the second returned
C31_Witness ==
    /\ last.op = "SendBatch"
    /\ Len(last.arg) = 4
    /\ ~last.arg[1].nan
    /\ last.arg[2].nan
    /\ ~last.arg[3].nan
    /\ last.ret.err # ""
    /\ last.ret.at = 2
    /\ last.ret.logged = <<1>>
    /\ cancelled

====
